---------------------------- MODULE Spec2Model ----------------------------
(***************************************************************************)
(* Model of collator.py: the CollatorFile descriptor (content hash, tag    *)
(* accessors, extension classification, positional path accessors) and the *)
(* recursive build_library traversal followed by the report loop of the    *)
(* __main__ block.                                                         *)
(*                                                                         *)
(* Strings are sequences of one-character strings, so that split, join,    *)
(* replace, basename and the regular expression are computed character by  *)
(* character.                                                              *)
(***************************************************************************)
EXTENDS Integers, Sequences, FiniteSets, TLC

VARIABLES
    fs,         \* the directory tree on disk, rooted at Root
    pc,         \* control position of the running program
    stack,      \* build_library activation records, innermost last
    result,     \* what the outermost build_library returned (NoResult before)
    error,      \* the exception that ended the run ("none" while running)
    visits,     \* log: one record per directory entry the loop has handled
    ri,         \* index of the report loop  for t in library
    fname,      \* self.fname of the descriptor being constructed or used
    blocksize,  \* the block size generate_hash reads with
    handles,    \* file handles currently open, as the paths they were opened on
    pos,        \* read offset of the open handle
    buf,        \* generate_hash's buf
    hasher,     \* state of the SHA-1 accumulator
    hash,       \* self.hash
    audiofile,  \* self.audiofile
    calls       \* log: one record per completed method call on the descriptor

vars == <<fs, pc, stack, result, error, visits, ri, fname, blocksize,
          handles, pos, buf, hasher, hash, audiofile, calls>>

-----------------------------------------------------------------------------
(* Bounds of the model. *)

MaxNodes == 3       \* entries in the scanned tree, the root excluded
MaxDepth == 2       \* nesting of entries below the root
MaxContent == 3     \* file length in bytes (hashing specification)
MaxBlock == 3       \* block sizes 1..MaxBlock are tried beside BLOCKSIZE
MaxSegs == 7        \* path segments (positional accessor specification)
MaxPrefix == 2      \* characters before the extension (classification)

(* Program constants. *)

BLOCKSIZE == 65536
ArtistIndex == 4
AlbumIndex == 5
debug == FALSE

-----------------------------------------------------------------------------
(* Python values. *)

None == [type |-> "NoneType"]
NoResult == [library |-> <<>>, unknowns |-> <<>>, returned |-> FALSE]

Min(a, b) == IF a < b THEN a ELSE b

(* s[a:b] with 0-based a inclusive, b exclusive, clipped like a slice. *)
Slice(s, a, b) == SubSeq(s, a + 1, Min(b, Len(s)))

(* str.lower() on the characters that occur in the model. *)
Lower(c) ==
    CASE c = "M" -> "m"
      [] c = "P" -> "p"
      [] c = "A" -> "a"
      [] c = "X" -> "x"
      [] OTHER -> c

LowerStr(s) == [i \in 1..Len(s) |-> Lower(s[i])]

(* str.replace(old, new) for one-character old and new. *)
Replace(s, old, new) == [i \in 1..Len(s) |-> IF s[i] = old THEN new ELSE s[i]]

(* Position of the last occurrence of character c in s, 0 when absent. *)
RECURSIVE LastIndexOf(_, _)
LastIndexOf(s, c) ==
    IF Len(s) = 0 THEN 0
    ELSE IF s[Len(s)] = c THEN Len(s)
    ELSE LastIndexOf(SubSeq(s, 1, Len(s) - 1), c)

(* Position of the first occurrence of character c in s, 0 when absent. *)
RECURSIVE FirstIndexOf(_, _)
FirstIndexOf(s, c) ==
    IF Len(s) = 0 THEN 0
    ELSE IF s[1] = c THEN 1
    ELSE LET r == FirstIndexOf(Tail(s), c) IN IF r = 0 THEN 0 ELSE r + 1

(* str.split(sep): always at least one element, empty pieces kept. *)
RECURSIVE Split(_, _)
Split(s, sep) ==
    LET k == FirstIndexOf(s, sep) IN
    IF k = 0 THEN <<s>>
    ELSE <<SubSeq(s, 1, k - 1)>> \o Split(SubSeq(s, k + 1, Len(s)), sep)

(* os.path.basename on POSIX: what follows the last slash. *)
Basename(p) == SubSeq(p, LastIndexOf(p, "/") + 1, Len(p))

(* os.path.join(a, b) on POSIX. *)
PathJoin(a, b) ==
    IF Len(b) > 0 /\ b[1] = "/" THEN b
    ELSE IF Len(a) = 0 \/ a[Len(a)] = "/" THEN a \o b
    ELSE a \o <<"/">> \o b


-----------------------------------------------------------------------------
(* Python attribute access and list indexing, with their exceptions. *)

Ok(v) == [exc |-> "none", val |-> v]
Exc(e) == [exc |-> e, val |-> None]

(* obj.attr : AttributeError when the object has no such attribute *)
GetAttr(obj, attr) ==
    IF attr \in (DOMAIN obj) \ {"type"} THEN Ok(obj[attr])
    ELSE Exc("AttributeError")

(* list[i] for i >= 0 : IndexError when i is not below len(list) *)
GetItem(list, i) ==
    IF i < Len(list) THEN Ok(list[i + 1])
    ELSE Exc("IndexError")

PyStr(s) == [type |-> "str", v |-> s]
Tag(t, ar, al) == [type |-> "Tag", title |-> t, artist |-> ar, album |-> al]
AudioFile(tag) == [type |-> "AudioFile", tag |-> tag]

(* A call log entry. *)
Call(op, f, r) == [op |-> op, fname |-> f, exc |-> r.exc, val |-> r.val]

-----------------------------------------------------------------------------
(* The directory tree.  A node is a directory (with an ordered listing, *)
(* which is the order os.listdir returns), a regular file (with its     *)
(* bytes and whether opening or reading it fails) or some other entry   *)
(* (a broken symlink, a socket, a device).                              *)

Bytes == {0, 1}

Root == <<"/", "h", "/", "u", "/", "m">>

OtherNode == [kind |-> "other", io |-> "ok", content |-> <<>>, entries |-> <<>>]
FileNode(io, c) == [kind |-> "file", io |-> io, content |-> c, entries |-> <<>>]
DirNode(es) == [kind |-> "dir", io |-> "ok", content |-> <<>>, entries |-> es]
Missing == [kind |-> "missing", io |-> "ok", content |-> <<>>, entries |-> <<>>]

Entry(n, nd) == [name |-> n, node |-> nd]

(* The child of directory node nd called n, Missing when there is none. *)
Child(nd, n) ==
    IF nd.kind = "dir" /\ \E i \in 1..Len(nd.entries) : nd.entries[i].name = n
    THEN LET i == CHOOSE i \in 1..Len(nd.entries) : nd.entries[i].name = n
         IN nd.entries[i].node
    ELSE Missing

RECURSIVE Walk(_, _)
Walk(nd, segs) ==
    IF Len(segs) = 0 THEN nd
    ELSE IF Len(Head(segs)) = 0 THEN Walk(nd, Tail(segs))
    ELSE Walk(Child(nd, Head(segs)), Tail(segs))

IsPrefix(a, b) == Len(a) <= Len(b) /\ SubSeq(b, 1, Len(a)) = a

(* What the kernel finds at path p: the path is walked component by *)
(* component below Root, empty components being skipped.            *)
Resolve(p) ==
    IF p = Root THEN fs
    ELSE IF IsPrefix(Root \o <<"/">>, p)
    THEN Walk(fs, Split(SubSeq(p, Len(Root) + 2, Len(p)), "/"))
    ELSE Missing

IsDir(p) == Resolve(p).kind = "dir"
IsFile(p) == Resolve(p).kind = "file"
ListDir(p) == [i \in 1..Len(Resolve(p).entries) |-> Resolve(p).entries[i].name]

-----------------------------------------------------------------------------
(* hashlib.sha1: the accumulator's state is a function of the bytes fed *)
(* so far, whatever the calls they were fed in.  It is kept here as the *)
(* bijective numeral of those bytes, one digit per byte, so that two    *)
(* different byte sequences never share a digest.                       *)

HashBase == Cardinality(Bytes) + 1

Sha1New == 0

RECURSIVE Sha1Update(_, _)
Sha1Update(h, data) ==
    IF Len(data) = 0 THEN h
    ELSE Sha1Update(h * HashBase + Head(data) + 1, Tail(data))

HexChars == <<"0", "1", "2", "3", "4", "5", "6", "7",
              "8", "9", "a", "b", "c", "d", "e", "f">>

(* hexdigest(): the state rendered in hexadecimal, most significant first. *)
RECURSIVE HexDigest(_)
HexDigest(h) ==
    IF h < 16 THEN <<HexChars[h + 1]>>
    ELSE HexDigest(h \div 16) \o <<HexChars[(h % 16) + 1]>>

(* The digest of a whole byte sequence fed in one call. *)
Sha1Of(data) == HexDigest(Sha1Update(Sha1New, data))

-----------------------------------------------------------------------------
(* Exceptions.  Nothing in the program catches IOError or IndexError: the *)
(* exception unwinds every build_library activation and ends the run.     *)

Raise(e) ==
    /\ pc' = "aborted"
    /\ error' = e
    /\ stack' = <<>>

(* afile.read(n) at offset pos of the file opened on path p. *)
FileRead(p, n) == Slice(Resolve(p).content, pos, pos + n)

(* Variant: the file is opened without a with block and never closed. *)
WithExitLeak(hs) == hs

(* with open(self.fname, 'rb') leaves the block: the handle opened last is *)
(* closed, on the normal path and on an exception alike.                   *)
WithExit(hs) == SubSeq(hs, 1, Len(hs) - 1)

(* Variant: the loop goes on only after a full block. *)
LoopCondFullBlock(b) == Len(b) = blocksize

(* while len(buf) > 0 *)
LoopCond(b) == Len(b) > 0

-----------------------------------------------------------------------------
(* CollatorFile.generate_hash, one action per statement. *)

(* Variant: a failed open is swallowed and the descriptor gets no hash. *)
HashOpenSwallow ==
    /\ pc = "hash_open"
    /\ hasher' = Sha1New
    /\ IF IsFile(fname) /\ Resolve(fname).io # "openfail"
       THEN /\ handles' = Append(handles, fname)
            /\ pos' = 0
            /\ pc' = "hash_read"
       ELSE /\ pc' = "hashed"
            /\ UNCHANGED <<handles, pos>>
    /\ UNCHANGED <<fs, stack, result, error, visits, ri, fname, blocksize,
                   buf, hash, audiofile, calls>>

(* hasher = hashlib.sha1(); open(self.fname, 'rb') *)
HashOpen ==
    /\ pc = "hash_open"
    /\ hasher' = Sha1New
    /\ IF IsFile(fname) /\ Resolve(fname).io # "openfail"
       THEN /\ handles' = Append(handles, fname)
            /\ pos' = 0
            /\ pc' = "hash_read"
            /\ UNCHANGED <<error, stack>>
       ELSE /\ Raise("IOError")
            /\ UNCHANGED <<handles, pos>>
    /\ UNCHANGED <<fs, result, visits, ri, fname, blocksize, buf, hash,
                   audiofile, calls>>

(* buf = afile.read(BLOCKSIZE), before the loop and at the end of its body *)
HashRead ==
    /\ pc = "hash_read"
    /\ IF Resolve(fname).io = "readfail"
       THEN /\ Raise("IOError")
            /\ handles' = WithExit(handles)
            /\ UNCHANGED <<buf, pos>>
       ELSE /\ buf' = FileRead(fname, blocksize)
            /\ pos' = pos + Len(buf')
            /\ pc' = "hash_loop"
            /\ UNCHANGED <<error, stack, handles>>
    /\ UNCHANGED <<fs, result, visits, ri, fname, blocksize, hasher, hash,
                   audiofile, calls>>

(* while len(buf) > 0: hasher.update(buf) *)
HashUpdate ==
    /\ pc = "hash_loop"
    /\ LoopCond(buf)
    /\ hasher' = Sha1Update(hasher, buf)
    /\ pc' = "hash_read"
    /\ UNCHANGED <<fs, stack, result, error, visits, ri, fname, blocksize,
                   handles, pos, buf, hash, audiofile, calls>>

(* the loop ends, the with block closes the file, return hasher.hexdigest() *)
HashReturn ==
    /\ pc = "hash_loop"
    /\ ~LoopCond(buf)
    /\ handles' = WithExit(handles)
    /\ hash' = HexDigest(hasher)
    /\ pc' = "hashed"
    /\ UNCHANGED <<fs, stack, result, error, visits, ri, fname, blocksize,
                   pos, buf, hasher, audiofile, calls>>

-----------------------------------------------------------------------------
(* Hashing specification: two regular files a and b under Root, each    *)
(* with any content of at most MaxContent bytes; generate_hash is       *)
(* called on either, any number of times up to MaxCalls, with one block *)
(* size per run drawn from 1..MaxBlock and BLOCKSIZE.                   *)

MaxCalls == 2

RECURSIVE SeqsUpTo(_, _)
SeqsUpTo(S, n) ==
    IF n = 0 THEN {<<>>}
    ELSE LET shorter == SeqsUpTo(S, n - 1)
         IN shorter \cup {Append(s, x) : s \in {t \in shorter : Len(t) = n - 1}, x \in S}

NameA == <<"a">>
NameB == <<"b">>

HashInit ==
    /\ \E ca \in SeqsUpTo(Bytes, MaxContent), cb \in SeqsUpTo(Bytes, MaxContent) :
         fs = DirNode(<<Entry(NameA, FileNode("ok", ca)),
                        Entry(NameB, FileNode("ok", cb))>>)
    /\ blocksize \in (1..MaxBlock) \cup {BLOCKSIZE}
    /\ pc = "idle"
    /\ stack = <<>>
    /\ result = NoResult
    /\ error = "none"
    /\ visits = <<>>
    /\ ri = 1
    /\ fname = <<>>
    /\ handles = <<>>
    /\ pos = 0
    /\ buf = <<>>
    /\ hasher = Sha1New
    /\ hash = None
    /\ audiofile = None
    /\ calls = <<>>

(* a caller invokes generate_hash() on the descriptor of a or of b *)
HashCall ==
    /\ pc = "idle"
    /\ Len(calls) < MaxCalls
    /\ \E n \in {NameA, NameB} : fname' = PathJoin(Root, n)
    /\ pc' = "hash_open"
    /\ UNCHANGED <<fs, stack, result, error, visits, ri, blocksize, handles,
                   pos, buf, hasher, hash, audiofile, calls>>

(* the caller receives the digest *)
HashDone ==
    /\ pc = "hashed"
    /\ calls' = Append(calls, Call("generate_hash", fname, Ok(hash)))
    /\ pc' = "idle"
    /\ UNCHANGED <<fs, stack, result, error, visits, ri, fname, blocksize,
                   handles, pos, buf, hasher, hash, audiofile>>

HashNext == HashCall \/ HashOpen \/ HashRead \/ HashUpdate \/ HashReturn \/ HashDone

SpecHash == HashInit /\ [][HashNext]_vars


-----------------------------------------------------------------------------
(* The state of a program that holds one descriptor and no scan. *)
DescriptorInit ==
    /\ fs = DirNode(<<>>)
    /\ pc = "idle"
    /\ stack = <<>>
    /\ result = NoResult
    /\ error = "none"
    /\ visits = <<>>
    /\ ri = 1
    /\ blocksize = BLOCKSIZE
    /\ handles = <<>>
    /\ pos = 0
    /\ buf = <<>>
    /\ hasher = Sha1New
    /\ hash = None
    /\ calls = <<>>

-----------------------------------------------------------------------------
(* CollatorFile.is_audio_file *)

AudioExts == {<<"m", "p", "3">>, <<"m", "4", "a">>}

(* Where $ matches in s without re.MULTILINE: at the end of the string and *)
(* just before a newline that is its last character.                       *)
DollarEnds(s) ==
    {Len(s)} \cup (IF Len(s) > 0 /\ s[Len(s)] = "\n" THEN {Len(s) - 1} ELSE {})

(* re.compile(".+\.(mp3|m4a)$", re.IGNORECASE).match(s): anchored at the  *)
(* start; .+ is one or more characters other than a newline; the letters  *)
(* are compared without case.                                             *)
IafReMatch(s) ==
    \E e \in DollarEnds(s) :
        /\ e >= 5
        /\ LowerStr(SubSeq(s, e - 2, e)) \in AudioExts
        /\ s[e - 3] = "."
        /\ \A i \in 1..(e - 4) : s[i] # "\n"

is_audio_file(f) == IafReMatch(Basename(f))

MaxAudioCalls == 1

AudioDirs == {<<>>, <<"x", "/">>, <<"x", ".", "m", "p", "3", "/">>}
AudioPrefixes == SeqsUpTo({"x", ".", "\n"}, MaxPrefix)
AudioDots == {<<>>, <<".">>}
AudioSuffixes == {<<>>, <<"m", "p">>, <<"m", "p", "3">>, <<"M", "P", "3">>,
                  <<"m", "4", "a">>, <<"M", "4", "A">>, <<"M", "p", "3">>,
                  <<"m", "p", "4">>, <<"j", "p", "g">>}
AudioTails == {<<>>, <<"\n">>, <<"\n", "\n">>, <<"x">>, <<".", "b", "a", "k">>}

AudioPaths ==
    {d \o p \o dot \o x \o t :
        d \in AudioDirs, p \in AudioPrefixes, dot \in AudioDots,
        x \in AudioSuffixes, t \in AudioTails}

AudioInit ==
    /\ DescriptorInit
    /\ fname \in AudioPaths
    /\ audiofile = None

IsAudioFileCall ==
    /\ pc = "idle"
    /\ Len(calls) < MaxAudioCalls
    /\ calls' = Append(calls, Call("is_audio_file", fname, Ok(is_audio_file(fname))))
    /\ UNCHANGED <<fs, pc, stack, result, error, visits, ri, fname, blocksize,
                   handles, pos, buf, hasher, hash, audiofile>>

AudioNext == IsAudioFileCall

SpecAudio == AudioInit /\ [][AudioNext]_vars

-----------------------------------------------------------------------------
(* CollatorFile.title_tag / album_tag / artist_tag *)

(* Variant: the lookup without the try/except around it. *)
TagLookupNoTry(a, field) ==
    LET t == GetAttr(a, "tag")
    IN IF t.exc = "none" THEN GetAttr(t.val, field) ELSE t

(* x = None; try: x = self.audiofile.tag.<field>; except AttributeError: pass *)
TagLookup(a, field) ==
    LET t == GetAttr(a, "tag")
        v == IF t.exc = "none" THEN GetAttr(t.val, field) ELSE t
    IN IF v.exc = "AttributeError" THEN Ok(None) ELSE v

title_tag(a) == TagLookup(a, "title")
album_tag(a) == TagLookup(a, "album")
artist_tag(a) == TagLookup(a, "artist")

MaxTagCalls == 3

(* What eyed3.load can return: None (not a file it reads), an object *)
(* whose tag is None, or an object with a tag whose fields are each  *)
(* a string or None.                                                 *)
TagValues == {None, PyStr(<<>>), PyStr(<<"x">>)}
Eyed3Results ==
    {None, AudioFile(None)}
        \cup {AudioFile(Tag(t, ar, al)) : t \in TagValues, ar \in TagValues, al \in TagValues}

TagFile == PathJoin(Root, <<"a", ".", "m", "p", "3">>)

TagInit ==
    /\ DescriptorInit
    /\ fname = TagFile
    /\ audiofile \in Eyed3Results

TitleTagCall ==
    /\ pc = "idle"
    /\ Len(calls) < MaxTagCalls
    /\ calls' = Append(calls, Call("title_tag", fname, title_tag(audiofile)))
    /\ UNCHANGED <<fs, pc, stack, result, error, visits, ri, fname, blocksize,
                   handles, pos, buf, hasher, hash, audiofile>>

AlbumTagCall ==
    /\ pc = "idle"
    /\ Len(calls) < MaxTagCalls
    /\ calls' = Append(calls, Call("album_tag", fname, album_tag(audiofile)))
    /\ UNCHANGED <<fs, pc, stack, result, error, visits, ri, fname, blocksize,
                   handles, pos, buf, hasher, hash, audiofile>>

ArtistTagCall ==
    /\ pc = "idle"
    /\ Len(calls) < MaxTagCalls
    /\ calls' = Append(calls, Call("artist_tag", fname, artist_tag(audiofile)))
    /\ UNCHANGED <<fs, pc, stack, result, error, visits, ri, fname, blocksize,
                   handles, pos, buf, hasher, hash, audiofile>>

TagNext == TitleTagCall \/ AlbumTagCall \/ ArtistTagCall

SpecTags == TagInit /\ [][TagNext]_vars

-----------------------------------------------------------------------------
(* CollatorFile.path_elements / path_artist / path_album *)

path_elements(f) == Split(f, "/")

(* Variant: the artist taken one segment earlier. *)
path_artist_above(f) == GetItem(path_elements(f), ArtistIndex - 1)

path_artist(f) == GetItem(path_elements(f), ArtistIndex)

(* Variant: the album taken one segment earlier. *)
path_album_above(f) == GetItem(path_elements(f), AlbumIndex - 1)

path_album(f) == GetItem(path_elements(f), AlbumIndex)

MaxPathCalls == 2

RECURSIVE JoinSegs(_)
JoinSegs(segs) ==
    IF Len(segs) = 1 THEN segs[1]
    ELSE segs[1] \o <<"/">> \o JoinSegs(Tail(segs))

SegNames == {<<>>, <<"A">>, <<"t", ".", "m", "p", "3">>}

SegPaths == {JoinSegs(segs) : segs \in SeqsUpTo(SegNames, MaxSegs) \ {<<>>}}

PathInit ==
    /\ DescriptorInit
    /\ fname \in SegPaths
    /\ audiofile = None

PathArtistCall ==
    /\ pc = "idle"
    /\ Len(calls) < MaxPathCalls
    /\ calls' = Append(calls, Call("path_artist", fname, path_artist(fname)))
    /\ UNCHANGED <<fs, pc, stack, result, error, visits, ri, fname, blocksize,
                   handles, pos, buf, hasher, hash, audiofile>>

PathAlbumCall ==
    /\ pc = "idle"
    /\ Len(calls) < MaxPathCalls
    /\ calls' = Append(calls, Call("path_album", fname, path_album(fname)))
    /\ UNCHANGED <<fs, pc, stack, result, error, visits, ri, fname, blocksize,
                   handles, pos, buf, hasher, hash, audiofile>>

PathNext == PathArtistCall \/ PathAlbumCall

SpecPath == PathInit /\ [][PathNext]_vars


-----------------------------------------------------------------------------
(* CollatorFile.__str__: the positional accessors are evaluated first, *)
(* then the three tag accessors.                                       *)

CollatorFile_str(d) ==
    LET ar == path_artist(d.fname)
        al == path_album(d.fname)
    IN IF ar.exc # "none" THEN ar
       ELSE IF al.exc # "none" THEN al
       ELSE Ok([type |-> "text",
                title |-> Basename(d.fname),
                artist |-> ar.val,
                album |-> al.val,
                title_tag |-> title_tag(d.audiofile).val,
                album_tag |-> album_tag(d.audiofile).val,
                artist_tag |-> artist_tag(d.audiofile).val])

-----------------------------------------------------------------------------
(* The trees that are scanned: at most MaxNodes entries below the root, *)
(* nested at most MaxDepth deep, with names drawn from ScanNames and    *)
(* listed in any order.                                                 *)

NameDir == <<"b">>
NameMp3 == <<"a", ".", "m", "p", "3">>
NameBackslash == <<"b", "\\", "a", ".", "m", "p", "3">>

ScanNames == {NameDir, NameMp3, NameBackslash}

ScanLeaves ==
    {OtherNode, FileNode("ok", <<>>), FileNode("ok", <<1>>),
     FileNode("openfail", <<>>), FileNode("readfail", <<1>>)}

(* The union of F(x) over x in S. *)
RECURSIVE CupMap(_, _)
CupMap(F(_), S) ==
    IF S = {} THEN {}
    ELSE LET x == CHOOSE y \in S : TRUE
         IN F(x) \cup CupMap(F, S \ {x})

RECURSIVE Listings(_, _, _)
RECURSIVE NodesOf(_, _)

(* The listings that hold exactly k nodes in all, at most d levels deep, *)
(* with entry names from avail, each used once.                          *)
Listings(k, d, avail) ==
    IF k = 0 THEN {<<>>}
    ELSE IF d = 0 THEN {}
    ELSE LET Starting(nj) ==
                 LET firsts == NodesOf(nj[2], d)
                     rests == Listings(k - nj[2], d, avail \ {nj[1]})
                 IN { <<Entry(nj[1], nd)>> \o rest : nd \in firsts, rest \in rests }
         IN CupMap(Starting, avail \X (1..k))

(* The nodes that, with what is below them, count j, at level d. *)
NodesOf(j, d) ==
    IF j = 1 THEN ScanLeaves \cup {DirNode(<<>>)}
    ELSE {DirNode(es) : es \in Listings(j - 1, d - 1, ScanNames)}

TreesOf(k) == {DirNode(es) : es \in Listings(k, MaxDepth, ScanNames)}

Trees(n) == CupMap(TreesOf, 0..n)

(* What eyed3.load returns during a scan. *)
ScanLoads == {None, AudioFile(None), AudioFile(Tag(PyStr(<<"x">>), None, PyStr(<<"x">>)))}

-----------------------------------------------------------------------------
(* build_library and the __main__ block. *)

Frame(path) ==
    [path |-> path, found |-> ListDir(path), i |-> 1,
     library |-> <<>>, unknowns |-> <<>>]

Top == stack[Len(stack)]

(* f, the entry the loop is at *)
CurName == Top.found[Top.i]

(* fpath = os.path.join(path, f).replace("\\", "/") *)
FPath(path, f) == Replace(PathJoin(path, f), "\\", "/")

CurPath == FPath(Top.path, CurName)

SetTop(fr) == [stack EXCEPT ![Len(stack)] = fr]

Visit(act) == [dir |-> Top.path, name |-> CurName, fpath |-> CurPath, act |-> act]

Init ==
    /\ fs \in Trees(MaxNodes)
    /\ pc = "main"
    /\ stack = <<>>
    /\ result = NoResult
    /\ error = "none"
    /\ visits = <<>>
    /\ ri = 1
    /\ fname = <<>>
    /\ blocksize = BLOCKSIZE
    /\ handles = <<>>
    /\ pos = 0
    /\ buf = <<>>
    /\ hasher = Sha1New
    /\ hash = None
    /\ audiofile = None
    /\ calls = <<>>

(* library, unknowns = build_library(root): entry, found = os.listdir(path) *)
MainCall ==
    /\ pc = "main"
    /\ stack' = <<Frame(Root)>>
    /\ pc' = "loop"
    /\ UNCHANGED <<fs, result, error, visits, ri, fname, blocksize, handles,
                   pos, buf, hasher, hash, audiofile, calls>>

(* if os.path.isdir(fpath): l, u = build_library(fpath) *)
LoopDir ==
    /\ pc = "loop"
    /\ Top.i <= Len(Top.found)
    /\ IsDir(CurPath)
    /\ stack' = Append(stack, Frame(CurPath))
    /\ visits' = Append(visits, Visit("recurse"))
    /\ UNCHANGED <<fs, pc, result, error, ri, fname, blocksize, handles,
                   pos, buf, hasher, hash, audiofile, calls>>

(* elif os.path.isfile(fpath): ncf = CollatorFile(fpath), up to the call *)
(* of generate_hash in __init__                                          *)
LoopFile ==
    /\ pc = "loop"
    /\ Top.i <= Len(Top.found)
    /\ ~IsDir(CurPath)
    /\ IsFile(CurPath)
    /\ fname' = CurPath
    /\ pc' = "hash_open"
    /\ visits' = Append(visits, Visit("construct"))
    /\ UNCHANGED <<fs, stack, result, error, ri, blocksize, handles,
                   pos, buf, hasher, hash, audiofile, calls>>

(* else: unknowns.append(fpath) *)
LoopOther ==
    /\ pc = "loop"
    /\ Top.i <= Len(Top.found)
    /\ ~IsDir(CurPath)
    /\ ~IsFile(CurPath)
    /\ stack' = SetTop([Top EXCEPT !.unknowns = Append(@, CurPath), !.i = @ + 1])
    /\ visits' = Append(visits, Visit("unknown"))
    /\ UNCHANGED <<fs, pc, result, error, ri, fname, blocksize, handles,
                   pos, buf, hasher, hash, audiofile, calls>>

(* self.audiofile = eyed3.load(self.fname) *)
Eyed3Load ==
    /\ pc = "hashed"
    /\ audiofile' \in ScanLoads
    /\ pc' = "classify"
    /\ UNCHANGED <<fs, stack, result, error, visits, ri, fname, blocksize,
                   handles, pos, buf, hasher, hash, calls>>

(* Variant: the descriptor is formatted (printed) as soon as it is built. *)
ClassifyPrinting ==
    /\ pc = "classify"
    /\ LET ncf == [fname |-> fname, hash |-> hash, audiofile |-> audiofile]
           r == CollatorFile_str(ncf)
       IN IF r.exc # "none"
          THEN Raise(r.exc)
          ELSE /\ IF is_audio_file(ncf.fname)
                  THEN stack' = SetTop([Top EXCEPT !.library = Append(@, ncf), !.i = @ + 1])
                  ELSE stack' = SetTop([Top EXCEPT !.unknowns = Append(@, CurPath), !.i = @ + 1])
               /\ pc' = "loop"
               /\ UNCHANGED error
    /\ UNCHANGED <<fs, result, visits, ri, fname, blocksize, handles,
                   pos, buf, hasher, hash, audiofile, calls>>

(* if ncf.is_audio_file(): library.append(ncf) else: unknowns.append(fpath) *)
Classify ==
    /\ pc = "classify"
    /\ LET ncf == [fname |-> fname, hash |-> hash, audiofile |-> audiofile]
       IN IF is_audio_file(ncf.fname)
          THEN stack' = SetTop([Top EXCEPT !.library = Append(@, ncf), !.i = @ + 1])
          ELSE stack' = SetTop([Top EXCEPT !.unknowns = Append(@, CurPath), !.i = @ + 1])
    /\ pc' = "loop"
    /\ UNCHANGED <<fs, result, error, visits, ri, fname, blocksize, handles,
                   pos, buf, hasher, hash, audiofile, calls>>

(* return library, unknowns: into the caller's library.extend(l) and *)
(* unknowns.extend(u), or out of the outermost call into __main__    *)
Return ==
    /\ pc = "loop"
    /\ Top.i > Len(Top.found)
    /\ IF Len(stack) > 1
       THEN LET caller == stack[Len(stack) - 1]
            IN /\ stack' = SubSeq(stack, 1, Len(stack) - 2) \o
                     <<[caller EXCEPT !.library = @ \o Top.library,
                                      !.unknowns = @ \o Top.unknowns,
                                      !.i = @ + 1]>>
               /\ UNCHANGED <<pc, result, ri>>
       ELSE /\ stack' = <<>>
            /\ result' = [library |-> Top.library, unknowns |-> Top.unknowns,
                          returned |-> TRUE]
            /\ pc' = "report"
            /\ ri' = 1
    /\ UNCHANGED <<fs, error, visits, fname, blocksize, handles,
                   pos, buf, hasher, hash, audiofile, calls>>

(* for t in library: print(t) *)
ReportTrack ==
    /\ pc = "report"
    /\ ri <= Len(result.library)
    /\ LET r == CollatorFile_str(result.library[ri])
       IN IF r.exc # "none"
          THEN /\ Raise(r.exc)
               /\ UNCHANGED <<ri, calls>>
          ELSE /\ calls' = Append(calls, Call("print", result.library[ri].fname, r))
               /\ ri' = ri + 1
               /\ UNCHANGED <<pc, error, stack>>
    /\ UNCHANGED <<fs, result, visits, fname, blocksize, handles,
                   pos, buf, hasher, hash, audiofile>>

(* if unknowns and debug: the unknown paths are printed; the program ends *)
ReportEnd ==
    /\ pc = "report"
    /\ ri > Len(result.library)
    /\ calls' = IF Len(result.unknowns) > 0 /\ debug
                THEN Append(calls, Call("print", <<>>, Ok(result.unknowns)))
                ELSE calls
    /\ pc' = "done"
    /\ UNCHANGED <<fs, stack, result, error, visits, ri, fname, blocksize,
                   handles, pos, buf, hasher, hash, audiofile>>

Next ==
    \/ MainCall \/ LoopDir \/ LoopFile \/ LoopOther
    \/ HashOpen \/ HashRead \/ HashUpdate \/ HashReturn
    \/ Eyed3Load \/ Classify \/ Return
    \/ ReportTrack \/ ReportEnd

Spec == Init /\ [][Next]_vars


-----------------------------------------------------------------------------
(* Vocabulary of the properties, defined on the tree and on the path *)
(* strings themselves, independently of the program's own helpers.   *)

(* The segments of a path, taken from the right. *)
RECURSIVE Segments(_)
Segments(p) ==
    LET k == LastIndexOf(p, "/") IN
    IF k = 0 THEN <<p>>
    ELSE Append(Segments(SubSeq(p, 1, k - 1)), SubSeq(p, k + 1, Len(p)))

LastSegment(p) == Segments(p)[Len(Segments(p))]

(* The path of the entry called n in the directory at path d. *)
EntryPath(d, n) == d \o <<"/">> \o n

(* The non-directory entries below directory node nd at path d, depth *)
(* first in listing order, each with its path and its node.           *)
RECURSIVE LeafEntries(_, _)
LeafEntries(d, nd) ==
    IF Len(nd.entries) = 0 THEN <<>>
    ELSE LET e == Head(nd.entries)
             rest == LeafEntries(d, [nd EXCEPT !.entries = Tail(@)])
         IN IF e.node.kind = "dir"
            THEN LeafEntries(EntryPath(d, e.name), e.node) \o rest
            ELSE <<[path |-> EntryPath(d, e.name), node |-> e.node]>> \o rest

TreeLeaves == LeafEntries(Root, fs)

PathsWhere(Test(_)) ==
    LET sel == SelectSeq(TreeLeaves, Test) IN [i \in 1..Len(sel) |-> sel[i].path]

IsAudioEntry(e) == e.node.kind = "file" /\ is_audio_file(e.path)
IsUnknownEntry(e) == ~IsAudioEntry(e)
IsOtherEntry(e) == e.node.kind = "other"
IsFileEntry(e) == e.node.kind = "file"

LibraryPaths == [i \in 1..Len(result.library) |-> result.library[i].fname]

RECURSIVE CountEntries(_)
CountEntries(nd) ==
    IF Len(nd.entries) = 0 THEN 0
    ELSE 1 + CountEntries(Head(nd.entries).node)
           + CountEntries([nd EXCEPT !.entries = Tail(@)])

LastVisit == visits[Len(visits)]

CallsOf(op) == {i \in 1..Len(calls) : calls[i].op = op}

-----------------------------------------------------------------------------
(* C1: when build_library(root) returns, audio holds one descriptor for  *)
(* exactly each regular file of the subtree that is_audio_file accepts,  *)
(* unknown holds the path of exactly each other non-directory entry, and *)
(* both are in depth-first listing order; directories add nothing.       *)
C1_PartitionInOrder ==
    result.returned =>
        /\ LibraryPaths = PathsWhere(IsAudioEntry)
        /\ result.unknowns = PathsWhere(IsUnknownEntry)

(* Supporting fact for C1: on trees in which no entry name holds a *)
(* backslash the returned pair is the partition, in order.         *)
RECURSIVE HasBackslashName(_)
HasBackslashName(nd) ==
    \E i \in 1..Len(nd.entries) :
        \/ \E j \in 1..Len(nd.entries[i].name) : nd.entries[i].name[j] = "\\"
        \/ HasBackslashName(nd.entries[i].node)

PartitionWithoutBackslash == ~HasBackslashName(fs) => C1_PartitionInOrder

(* C3: an entry that is neither a directory nor a regular file is routed *)
(* to unknown under its own path, and no CollatorFile is constructed     *)
(* (nothing is opened, hashed or parsed) while it is handled.            *)
C3_OtherEntriesUntouched ==
    \A k \in 1..Len(visits) :
        LET v == visits[k] IN
        Child(Resolve(v.dir), v.name).kind = "other" =>
            /\ v.act = "unknown"
            /\ v.fpath = EntryPath(v.dir, v.name)


(* C2: is_audio_file() is true exactly when the base name, compared     *)
(* without case, is a non-empty prefix, a dot and an extension that is  *)
(* exactly mp3 or m4a at the end of the name.                           *)
ClaimedAudio(f) ==
    LET base == LowerStr(LastSegment(f)) IN
    /\ Len(base) >= 5
    /\ SubSeq(base, Len(base) - 3, Len(base)) \in
           {<<".", "m", "p", "3">>, <<".", "m", "4", "a">>}

C2_ExtensionDecides ==
    \A i \in CallsOf("is_audio_file") : calls[i].val = ClaimedAudio(calls[i].fname)

(* Supporting fact for C3: the same without backslashes in names. *)
OtherEntriesWithoutBackslash == ~HasBackslashName(fs) => C3_OtherEntriesUntouched

(* C4: once hashing a regular file has failed, with or without an audio *)
(* extension, the run is aborted by IOError at that file: it is the     *)
(* last entry visited, no activation of build_library is left, and no   *)
(* result, not even a partial one, reaches the caller.                  *)
HashingOf(k) == k = Len(visits) /\ pc \in {"hash_open", "hash_read", "hash_loop"}

C4_HashFailureAborts ==
    \A k \in 1..Len(visits) :
        (/\ visits[k].act = "construct"
         /\ Resolve(visits[k].fpath).io # "ok"
         /\ ~HashingOf(k))
        => /\ pc = "aborted"
           /\ error = "IOError"
           /\ k = Len(visits)
           /\ stack = <<>>
           /\ result = NoResult
           /\ calls = <<>>

C4_Witness ==
    /\ pc = "aborted"
    /\ error = "IOError"
    /\ Len(visits) = 2
    /\ visits[1].act = "recurse"
    /\ ~is_audio_file(LastVisit.fpath)
    /\ CountEntries(fs) = 3

(* C5: title_tag, artist_tag and album_tag never raise; each returns its *)
(* own field when the parser gave an object with a tag, and None when    *)
(* the field is unset, the tag is None or the parser returned None,      *)
(* whichever accessors were called before.                               *)
TagField(op) ==
    CASE op = "title_tag" -> "title"
      [] op = "album_tag" -> "album"
      [] op = "artist_tag" -> "artist"

ExpectedTag(a, field) ==
    IF a.type = "AudioFile"
    THEN IF a.tag.type = "Tag" THEN a.tag[field] ELSE None
    ELSE None

C5_TagAccessorsTotal ==
    \A i \in 1..Len(calls) :
        /\ calls[i].exc = "none"
        /\ calls[i].val = ExpectedTag(audiofile, TagField(calls[i].op))

C5_Witness ==
    /\ audiofile = AudioFile(Tag(PyStr(<<"x">>), PyStr(<<"x">>), None))
    /\ Len(calls) = 3
    /\ calls[1].op = "album_tag" /\ calls[1].val = None
    /\ calls[2].op = "title_tag" /\ calls[2].val = PyStr(<<"x">>)
    /\ calls[3].op = "artist_tag" /\ calls[3].val = PyStr(<<"x">>)

(* C6 as claimed: for a path of exactly 6 segments path_artist returns *)
(* the fourth and path_album the fifth, the two directory names above  *)
(* the track file.                                                     *)
C6_SixSegmentLayout ==
    \A i \in 1..Len(calls) :
        LET segs == Segments(calls[i].fname) IN
        Len(segs) = 6 =>
            /\ calls[i].exc = "none"
            /\ calls[i].op = "path_artist" => calls[i].val = segs[4]
            /\ calls[i].op = "path_album" => calls[i].val = segs[5]

(* C6 amended: path_artist returns the fifth segment and path_album the *)
(* sixth; these are the two directory names above the track file when   *)
(* the path has exactly 7 segments, and the directory above the track   *)
(* and the track's own name when it has exactly 6.                      *)
C6_SevenSegmentLayout ==
    \A i \in 1..Len(calls) :
        LET segs == Segments(calls[i].fname) IN
        Len(segs) >= 6 =>
            /\ calls[i].exc = "none"
            /\ calls[i].op = "path_artist" => calls[i].val = segs[5]
            /\ calls[i].op = "path_album" => calls[i].val = segs[6]
            /\ (Len(segs) = 7 /\ calls[i].op = "path_artist") => calls[i].val = segs[Len(segs) - 2]
            /\ (Len(segs) = 7 /\ calls[i].op = "path_album") => calls[i].val = segs[Len(segs) - 1]
            /\ (Len(segs) = 6 /\ calls[i].op = "path_album") => calls[i].val = LastSegment(calls[i].fname)

C6_Witness ==
    /\ Len(Segments(fname)) = 7
    /\ Segments(fname)[5] = <<"A">>
    /\ Segments(fname)[6] = <<>>
    /\ LastSegment(fname) = <<"t", ".", "m", "p", "3">>
    /\ Len(calls) = 2
    /\ calls[1].op = "path_artist" /\ calls[1].val = <<"A">>
    /\ calls[2].op = "path_album" /\ calls[2].val = <<>>

(* C7 as claimed: with fewer than 6 segments both accessors fail with *)
(* IndexError, with 6 or more neither does.                           *)
C7_BothFailBelowSix ==
    \A i \in 1..Len(calls) :
        IF Len(Segments(calls[i].fname)) < 6
        THEN calls[i].exc = "IndexError"
        ELSE calls[i].exc = "none"

(* C7 amended: path_album fails with IndexError exactly when the path *)
(* has fewer than 6 segments, path_artist exactly when it has fewer   *)
(* than 5; nothing else is raised.                                    *)
C7_FailureThresholds ==
    \A i \in 1..Len(calls) :
        LET n == Len(Segments(calls[i].fname)) IN
        /\ calls[i].op = "path_album" =>
               calls[i].exc = (IF n < 6 THEN "IndexError" ELSE "none")
        /\ calls[i].op = "path_artist" =>
               calls[i].exc = (IF n < 5 THEN "IndexError" ELSE "none")

C7_Witness ==
    /\ Len(Segments(fname)) = 5
    /\ Len(calls) = 2
    /\ calls[1].op = "path_artist" /\ calls[1].exc = "none"
    /\ calls[2].op = "path_album" /\ calls[2].exc = "IndexError"

(* C8 as claimed: a tree that holds a regular file whose path has fewer *)
(* than 6 segments never gets a result out of build_library.            *)
HasShallowFile ==
    \E i \in 1..Len(TreeLeaves) :
        IsFileEntry(TreeLeaves[i]) /\ Len(Segments(TreeLeaves[i].path)) < 6

C8_ShallowFileAbortsScan == HasShallowFile => ~result.returned

(* C8 amended: the traversal never fails on a shallow path; it ends     *)
(* without a result only by IOError.  IndexError is raised only after   *)
(* build_library has returned, by the report loop formatting an audio   *)
(* descriptor whose path has fewer than 6 segments.                     *)
C8_ShallowFailsInReport ==
    /\ ~result.returned => error \in {"none", "IOError"}
    /\ error = "IndexError" =>
           /\ result.returned
           /\ pc = "aborted"
           /\ ri <= Len(result.library)
           /\ Len(Segments(result.library[ri].fname)) < 6
    /\ (pc = "done" /\ HasShallowFile) =>
           \A i \in 1..Len(result.library) :
               Len(Segments(result.library[i].fname)) >= 6

C8_Witness ==
    /\ error = "IndexError"
    /\ result.returned
    /\ Len(result.library) = 1
    /\ Len(result.unknowns) = 1
    /\ Len(Segments(result.unknowns[1])) < 6
    /\ \E k \in 1..Len(visits) :
           visits[k].act = "construct" /\ visits[k].fpath = result.unknowns[1]

(* C9: the digest generate_hash returns is the digest of the file's     *)
(* whole content, for every block size and content length; so calls on  *)
(* files with the same bytes, or repeated calls on one file, agree.     *)
ContentAt(f) == Resolve(f).content

C9_DigestOfContent ==
    /\ \A i \in CallsOf("generate_hash") :
           calls[i].val = Sha1Of(ContentAt(calls[i].fname))
    /\ \A i \in CallsOf("generate_hash"), j \in CallsOf("generate_hash") :
           ContentAt(calls[i].fname) = ContentAt(calls[j].fname)
               => calls[i].val = calls[j].val

C9_Witness ==
    /\ Len(calls) = 2
    /\ calls[1].fname # calls[2].fname
    /\ ContentAt(calls[1].fname) = ContentAt(calls[2].fname)
    /\ Len(ContentAt(calls[1].fname)) = 2 * blocksize
    /\ calls[1].val = calls[2].val

(* C10: at most one hashing handle is open, on the file being hashed,   *)
(* and none is open outside generate_hash: not when the loop moves on,  *)
(* descends or returns, not after a failed read, not at the end.        *)
C10_HandleScopedToHash ==
    /\ Len(handles) <= 1
    /\ Len(handles) = 1 =>
           /\ pc \in {"hash_read", "hash_loop"}
           /\ handles[1] = fname
           /\ fname = LastVisit.fpath
    /\ pc \notin {"hash_read", "hash_loop"} => handles = <<>>

C10_Witness ==
    /\ pc = "aborted"
    /\ Len(visits) = 3
    /\ Resolve(LastVisit.fpath).io = "readfail"
    /\ visits[1].act = "construct"
    /\ visits[2].act = "recurse"
    /\ handles = <<>>

=============================================================================
